---- MODULE Spec2Model ----
(***************************************************************************)
(* A model of shaka.util.CmcdManager (lib/util/cmcd_manager.js): the CMCD  *)
(* session state, the entry points that attach CMCD data to requests and   *)
(* URIs, and the CTA-5004 serializer.                                      *)
(*                                                                         *)
(* Strings the code inspects or builds character by character are          *)
(* sequences of one-character strings.  A JavaScript number x is kept as   *)
(* the integer 1000 * x (three decimals of fixed point), so that the       *)
(* code's divisions by 1000 and its roundings are exact.                   *)
(***************************************************************************)
EXTENDS Integers, Sequences, FiniteSets, TLC

VARIABLES
    playbackStarted_,   \* this.playbackStarted_
    buffering_,         \* this.buffering_
    starved_,           \* this.starved_
    sf_,                \* this.sf_ (a Value: Undefined or a format token)
    sid_,               \* this.sid_
    config_,            \* this.config_
    call,               \* the call that has just returned: its inputs and what
                        \* it produced; [op |-> "idle"] between two calls
    mon,                \* observer: where the session is in a starvation report
    lastFormat          \* observer: format given to the last applyManifestData

vars == <<playbackStarted_, buffering_, starved_, sf_, sid_, config_, call,
          mon, lastFormat>>

session == <<playbackStarted_, buffering_, starved_, sf_, sid_, config_>>

(***************************************************************************)
(* Bounds of the model.                                                    *)
(***************************************************************************)
\* The longest payload handed to the static serializer functions.
MaxKeys == 3

(***************************************************************************)
(* Characters and strings.                                                 *)
(***************************************************************************)
\* The printable ASCII characters in code-unit order, from 32 (space); the
\* grave accent, which a string literal cannot hold, is spelled U+0060.
Printable ==
    << " ", "!", "\"", "#", "$", "%", "&", "'", "(", ")", "*", "+", ",", "-",
       ".", "/", "0", "1", "2", "3", "4", "5", "6", "7", "8", "9", ":", ";",
       "<", "=", ">", "?", "@", "A", "B", "C", "D", "E", "F", "G", "H", "I",
       "J", "K", "L", "M", "N", "O", "P", "Q", "R", "S", "T", "U", "V", "W",
       "X", "Y", "Z", "[", "\\", "]", "^", "_", "U+0060", "a", "b", "c", "d", "e",
       "f", "g", "h", "i", "j", "k", "l", "m", "n", "o", "p", "q", "r", "s",
       "t", "u", "v", "w", "x", "y", "z", "{", "|", "}", "~" >>

\* A UTF-16 code unit that is half of a surrogate pair, on its own.
LoneSurrogate == "U+D800"

PrintableSet == {Printable[i] : i \in 1..Len(Printable)}

\* The UTF-16 code unit of each character.
CodeUnit ==
    [c \in PrintableSet \cup {LoneSurrogate} |->
        IF c = LoneSurrogate THEN 55296
        ELSE 31 + (CHOOSE i \in 1..Len(Printable) : Printable[i] = c)]

CharCode(c) == CodeUnit[c]

Digits == <<"0", "1", "2", "3", "4", "5", "6", "7", "8", "9">>

HexDigits == Digits \o <<"A", "B", "C", "D", "E", "F">>

\* The characters encodeURIComponent leaves alone: A-Z a-z 0-9 - _ . ! ~ * ' ( )
Unreserved ==
    {c \in PrintableSet :
        \/ (CodeUnit[c] >= CodeUnit["A"] /\ CodeUnit[c] <= CodeUnit["Z"])
        \/ (CodeUnit[c] >= CodeUnit["a"] /\ CodeUnit[c] <= CodeUnit["z"])
        \/ (CodeUnit[c] >= CodeUnit["0"] /\ CodeUnit[c] <= CodeUnit["9"])
        \/ c \in {"-", "_", ".", "!", "~", "*", "'", "(", ")"}}

\* A character as encodeURIComponent writes it: itself, or % and the two
\* hexadecimal digits of its code (every other printable one is one byte).
EncodedChar ==
    [c \in PrintableSet |->
        IF c \in Unreserved THEN <<c>>
        ELSE <<"%", HexDigits[(CodeUnit[c] \div 16) + 1],
                    HexDigits[(CodeUnit[c] % 16) + 1]>>]

RECURSIVE EncodeChars(_, _)
EncodeChars(s, i) ==
    IF i > Len(s) THEN <<>> ELSE EncodedChar[s[i]] \o EncodeChars(s, i + 1)

\* encodeURIComponent(value): percent-encodes, and throws URIError on a lone
\* surrogate.
EncodeURIComponent(s) ==
    IF \E i \in 1..Len(s) : s[i] = LoneSurrogate
    THEN [thrown |-> TRUE, s |-> <<>>]
    ELSE [thrown |-> FALSE, s |-> EncodeChars(s, 1)]

\* String.prototype.includes
Includes(s, sub) ==
    \E i \in 1..(Len(s) - Len(sub) + 1) : SubSeq(s, i, i + Len(sub) - 1) = sub

\* value.replace(/c/g, repl)
RECURSIVE ReplaceAll(_, _, _)
ReplaceAll(s, c, repl) ==
    IF s = <<>> THEN <<>>
    ELSE (IF Head(s) = c THEN repl ELSE <<Head(s)>>)
         \o ReplaceAll(Tail(s), c, repl)

\* a < b for strings, as the default Array.prototype.sort compares them: by
\* code units, a proper prefix first.
RECURSIVE StrLess(_, _)
StrLess(a, b) ==
    IF b = <<>> THEN FALSE
    ELSE IF a = <<>> THEN TRUE
    ELSE IF Head(a) # Head(b) THEN CharCode(Head(a)) < CharCode(Head(b))
    ELSE StrLess(Tail(a), Tail(b))

RECURSIVE Join(_, _)
Join(parts, sep) ==
    IF parts = <<>> THEN <<>>
    ELSE IF Len(parts) = 1 THEN parts[1]
    ELSE parts[1] \o sep \o Join(Tail(parts), sep)

(***************************************************************************)
(* JavaScript values.                                                      *)
(***************************************************************************)
Num(milli) == [t |-> "number", n |-> milli, s |-> <<>>]
Whole(i) == Num(1000 * i)
NaN == [t |-> "NaN", n |-> 0, s |-> <<>>]
Undefined == [t |-> "undefined", n |-> 0, s |-> <<>>]
Null == [t |-> "null", n |-> 0, s |-> <<>>]
Str(s) == [t |-> "string", n |-> 0, s |-> s]
Bool(b) == [t |-> "boolean", n |-> IF b THEN 1 ELSE 0, s |-> <<>>]

\* value / 1000 (undefined / 1000 is NaN).  The numbers divided are whole.
DivThousand(v) == IF v.t = "number" THEN Num(v.n \div 1000) ELSE NaN

\* value * 1000
TimesThousand(v) == IF v.t = "number" THEN Num(v.n * 1000) ELSE NaN

\* a > b on numbers; any comparison with undefined or NaN is false.
Greater(a, b) == a.t = "number" /\ b.t = "number" /\ a.n > b.n

RECURSIVE NatToStr(_)
NatToStr(n) ==
    IF n < 10 THEN <<Digits[n + 1]>>
    ELSE NatToStr(n \div 10) \o <<Digits[(n % 10) + 1]>>

\* The decimals of a fraction given in thousandths, without trailing zeros.
FracToStr(f) ==
    IF f % 100 = 0 THEN <<Digits[(f \div 100) + 1]>>
    ELSE IF f % 10 = 0
         THEN <<Digits[(f \div 100) + 1], Digits[((f \div 10) % 10) + 1]>>
         ELSE <<Digits[(f \div 100) + 1], Digits[((f \div 10) % 10) + 1],
                Digits[(f % 10) + 1]>>

\* `${value}` for a number.
NumToStr(milli) ==
    LET a == IF milli < 0 THEN 0 - milli ELSE milli
        whole == NatToStr(a \div 1000)
        frac == IF a % 1000 = 0 THEN <<>> ELSE <<".">> \o FracToStr(a % 1000)
    IN  (IF milli < 0 THEN <<"-">> ELSE <<>>) \o whole \o frac

\* `${value}`
JsString(v) ==
    CASE v.t = "number" -> NumToStr(v.n)
      [] v.t = "string" -> v.s
      [] v.t = "boolean" -> IF v.n = 1 THEN <<"t", "r", "u", "e">>
                            ELSE <<"f", "a", "l", "s", "e">>
      [] v.t = "NaN" -> <<"N", "a", "N">>
      [] v.t = "null" -> <<"n", "u", "l", "l">>
      [] OTHER -> <<"u", "n", "d", "e", "f", "i", "n", "e", "d">>

(***************************************************************************)
(* The CMCD data object: its entries in insertion order, keys distinct.    *)
(***************************************************************************)
Entry(k, v) == [k |-> k, v |-> v]

\* Object.keys(data)
Keys(data) == [i \in 1..Len(data) |-> data[i].k]

HasKey(data, k) == \E i \in 1..Len(data) : data[i].k = k

\* data[k]
Get(data, k) ==
    IF HasKey(data, k)
    THEN data[CHOOSE i \in 1..Len(data) : data[i].k = k].v
    ELSE Undefined

\* data[k] = v: an own key keeps its place, a new key goes last.
Put(data, k, v) ==
    IF HasKey(data, k)
    THEN [i \in 1..Len(data) |-> IF data[i].k = k THEN Entry(k, v) ELSE data[i]]
    ELSE Append(data, Entry(k, v))

\* Object.assign(target, source)
RECURSIVE Assign(_, _)
Assign(target, source) ==
    IF source = <<>> THEN target
    ELSE Assign(Put(target, Head(source).k, Head(source).v), Tail(source))

\* The key names.
K_br == <<"b", "r">>
K_d == <<"d">>
K_ot == <<"o", "t">>
K_tb == <<"t", "b">>
K_bl == <<"b", "l">>
K_dl == <<"d", "l">>
K_mtp == <<"m", "t", "p">>
K_nor == <<"n", "o", "r">>
K_nrr == <<"n", "r", "r">>
K_su == <<"s", "u">>
K_cid == <<"c", "i", "d">>
K_pr == <<"p", "r">>
K_sf == <<"s", "f">>
K_sid == <<"s", "i", "d">>
K_st == <<"s", "t">>
K_v == <<"v">>
K_bs == <<"b", "s">>
K_rtp == <<"r", "t", "p">>

(***************************************************************************)
(* shaka.util.CmcdManager.serialize                                        *)
(***************************************************************************)
\* isValid: not NaN, not null or undefined, not '', not false.
isValid(value) ==
    /\ value.t # "NaN"
    /\ value.t \notin {"null", "undefined"}
    /\ ~(value.t = "string" /\ value.s = <<>>)
    /\ ~(value.t = "boolean" /\ value.n = 0)

\* Math.round: to the nearest integer, a half rounds up.
toRounded(value) ==
    IF value.t = "number" THEN Num(((value.n + 500) \div 1000) * 1000) ELSE NaN

\* toRounded(value / 100) * 100
toHundred(value) ==
    IF value.t = "number" THEN Num(((value.n + 50000) \div 100000) * 100000)
    ELSE NaN

\* formatters[key](value), or the value when the key has no formatter; for
\* nor, toUrlSafe, which is encodeURIComponent (when that throws: see
\* SerializeThrows).
Format(key, value) ==
    CASE key \in {K_br, K_d, K_tb} -> toRounded(value)
      [] key \in {K_bl, K_dl, K_mtp, K_rtp} -> toHundred(value)
      [] key = K_nor -> Str(EncodeURIComponent(JsString(value)).s)
      [] OTHER -> value

\* What value.replace(/"/g, '"') puts in place of each double quote.
QuoteReplacement == <<"\"">>

\* The token of one key and its formatted value.
Token(key, value) ==
    IF value.t = "string" /\ key # K_ot /\ key # K_sf /\ key # K_st
    THEN key \o <<"=", "\"">> \o ReplaceAll(value.s, "\"", QuoteReplacement)
             \o <<"\"">>
    ELSE IF value.t = "boolean" THEN key
    ELSE key \o <<"=">> \o JsString(value)

\* Insert a key into a sorted list of keys.
RECURSIVE InsertSorted(_, _)
InsertSorted(k, sorted) ==
    IF sorted = <<>> THEN <<k>>
    ELSE IF StrLess(k, Head(sorted)) THEN <<k>> \o sorted
    ELSE <<Head(sorted)>> \o InsertSorted(k, Tail(sorted))

RECURSIVE SortedKeys(_)
SortedKeys(keys) ==
    IF keys = <<>> THEN <<>>
    ELSE InsertSorted(Head(keys), SortedKeys(Tail(keys)))

\* The keys in the order of their insertion, never sorted.
SerializeKeysUnsorted(data) == Keys(data)

\* Object.keys(data || {}).sort()
SerializeKeys(data) == SortedKeys(Keys(data))

\* Whether the loop of serialize skips the key.
Skipped(key, value) ==
    \/ ~isValid(value)
    \/ (key = K_v /\ value = Whole(1))
    \/ (key = K_pr /\ value = Whole(1))

\* One turn of the loop of serialize: the results array after the key.
SerializeStep(key, value, results) ==
    IF Skipped(key, value) THEN results
    ELSE Append(results, Token(key, Format(key, value)))

\* The loop of serialize over the keys left.
RECURSIVE SerializeLoop(_, _, _)
SerializeLoop(data, keys, results) ==
    IF keys = <<>> THEN results
    ELSE SerializeLoop(data, Tail(keys),
                       SerializeStep(Head(keys), Get(data, Head(keys)), results))

\* Whether serialize throws: a formatter is reached that throws.
SerializeThrows(data) ==
    \E i \in 1..Len(data) :
        /\ data[i].k = K_nor
        /\ ~Skipped(K_nor, data[i].v)
        /\ EncodeURIComponent(JsString(data[i].v)).thrown

\* What serialize returns with its results array given.
Serialized(results) ==
    [thrown |-> FALSE, results |-> results, s |-> Join(results, <<",">>)]

\* serialize(data): {thrown, results, s}, s being results.join(',').
Serialize(data) ==
    IF SerializeThrows(data)
    THEN [thrown |-> TRUE, results |-> <<>>, s |-> <<>>]
    ELSE Serialized(SerializeLoop(data, SerializeKeys(data), <<>>))

(***************************************************************************)
(* shaka.util.CmcdManager.toHeaders, toQuery, appendQueryToUri             *)
(***************************************************************************)
headerNames == <<"Object", "Request", "Session", "Status">>

\* A header map with su under CMCD-Status.
HeaderIndexSuStatus(key) ==
    CASE key \in {K_br, K_d, K_ot, K_tb} -> 1
      [] key \in {K_bl, K_dl, K_mtp, K_nor, K_nrr} -> 2
      [] key \in {K_cid, K_pr, K_sf, K_sid, K_st, K_v} -> 3
      [] key \in {K_bs, K_rtp, K_su} -> 4
      [] OTHER -> 2

\* headerMap[key], with the unmapped keys sent to the Request header; the
\* groups are numbered from 1 here.
HeaderIndex(key) ==
    CASE key \in {K_br, K_d, K_ot, K_tb} -> 1
      [] key \in {K_bl, K_dl, K_mtp, K_nor, K_nrr, K_su} -> 2
      [] key \in {K_cid, K_pr, K_sf, K_sid, K_st, K_v} -> 3
      [] key \in {K_bs, K_rtp} -> 4
      [] OTHER -> 2

\* headerGroups[i] once the first loop has run.
HeaderGroup(data, i) == SelectSeq(data, LAMBDA e : HeaderIndex(e.k) = i)

\* The second loop of toHeaders, value[i] being serialize(headerGroups[i]).
HeadersOf(value) ==
    IF \E i \in 1..Len(headerNames) : value[i].thrown
    THEN [thrown |-> TRUE, headers |-> [n \in {} |-> <<>>]]
    ELSE [thrown |-> FALSE,
          headers |->
              [n \in {"CMCD-" \o headerNames[i] :
                          i \in {j \in 1..Len(headerNames) : value[j].s # <<>>}} |->
                  value[CHOOSE i \in 1..Len(headerNames) :
                            "CMCD-" \o headerNames[i] = n].s]]

\* toHeaders(data): {thrown, headers}, headers a function of the header names.
ToHeaders(data) ==
    HeadersOf([i \in 1..Len(headerNames) |-> Serialize(HeaderGroup(data, i))])

\* `CMCD=${encoded}`
QueryOfEncoded(e) ==
    IF e.thrown THEN [thrown |-> TRUE, s |-> <<>>]
    ELSE [thrown |-> FALSE, s |-> <<"C", "M", "C", "D", "=">> \o e.s]

\* toQuery with serialize(data) given.
QueryOf(r) ==
    IF r.thrown THEN [thrown |-> TRUE, s |-> <<>>]
    ELSE QueryOfEncoded(EncodeURIComponent(r.s))

\* toQuery(data): {thrown, s}
ToQuery(data) == QueryOf(Serialize(data))

OfflineMark == <<"o", "f", "f", "l", "i", "n", "e", ":">>

\* appendQueryToUri(uri, query)
AppendQueryToUri(uri, query) ==
    IF query = <<>> THEN uri
    ELSE IF Includes(uri, OfflineMark) THEN uri
    ELSE uri \o (IF Includes(uri, <<"?">>) THEN <<"&">> ELSE <<"?">>) \o query

(***************************************************************************)
(* The enums and the version constant.                                     *)
(***************************************************************************)
ObjectType ==
    [MANIFEST |-> Str(<<"m">>), AUDIO |-> Str(<<"a">>), VIDEO |-> Str(<<"v">>),
     MUXED |-> Str(<<"a", "v">>), INIT |-> Str(<<"i">>),
     CAPTION |-> Str(<<"c">>), TIMED_TEXT |-> Str(<<"t", "t">>),
     KEY |-> Str(<<"k">>), Other |-> Str(<<"o">>)]

StreamType == [VOD |-> Str(<<"v">>), LIVE |-> Str(<<"l">>)]

StreamingFormat ==
    [DASH |-> Str(<<"d">>), HLS |-> Str(<<"h">>), SMOOTH |-> Str(<<"s">>),
     Other |-> Str(<<"o">>)]

Version == 1

(***************************************************************************)
(* The manager.  An operator that models a method takes the session state  *)
(* st = [playbackStarted, buffering, starved, sf, sid, config], and env,   *)
(* what the player interface answers during the call: env.throws holds the *)
(* names of the interface methods that throw.                              *)
(***************************************************************************)
State ==
    [playbackStarted |-> playbackStarted_, buffering |-> buffering_,
     starved |-> starved_, sf |-> sf_, sid |-> sid_, config |-> config_]

EmptyHeaders == [n \in {} |-> <<>>]

\* setBuffering taking every rebuffer for a starvation, started or not.
SetBufferingResultAnyRebuffer(st, buffering) ==
    [playbackStarted |-> st.playbackStarted \/ ~buffering,
     starved |-> st.starved \/ buffering,
     buffering |-> buffering]

\* setBuffering(buffering): the three fields after the call.
SetBufferingResult(st, buffering) ==
    LET started == IF ~buffering /\ ~st.playbackStarted THEN TRUE
                   ELSE st.playbackStarted
    IN  [playbackStarted |-> started,
         starved |-> IF started /\ buffering THEN TRUE ELSE st.starved,
         buffering |-> buffering]

\* createData_(): {thrown, data}
createData_(st, env) ==
    [thrown |-> "getBandwidthEstimate" \in env.throws,
     data |-> << Entry(K_v, Whole(Version)),
                 Entry(K_sf, st.sf),
                 Entry(K_sid, Str(st.sid)),
                 Entry(K_cid, st.config.contentId),
                 Entry(K_mtp, DivThousand(env.bandwidthEstimate)) >>]

\* A video test that takes an audio request for a video one as well.
IsVideoOrAudio(data) ==
    \/ Get(data, K_ot) = ObjectType.VIDEO
    \/ Get(data, K_ot) = ObjectType.MUXED
    \/ Get(data, K_ot) = ObjectType.AUDIO

\* Whether apply_ takes the request for a video one.
IsVideo(data) ==
    Get(data, K_ot) = ObjectType.VIDEO \/ Get(data, K_ot) = ObjectType.MUXED

\* A starved flag that no request consumes.
StarvedKept(starved, isVideo) == starved

\* The starved flag after apply_ has looked at it.
StarvedAfter(starved, isVideo) == IF starved /\ isVideo THEN FALSE ELSE starved

\* A starvation that sets bs and leaves su alone.
WithStarvedBsOnly(st, data) ==
    IF st.starved /\ IsVideo(data)
    THEN Put(data, K_bs, Bool(TRUE))
    ELSE data

\* if (this.starved_ && isVideo) { data.bs = true; data.su = true; }
WithStarved(st, data) ==
    IF st.starved /\ IsVideo(data)
    THEN Put(Put(data, K_bs, Bool(TRUE)), K_su, Bool(TRUE))
    ELSE data

\* if (data.su == null) { data.su = this.buffering_; }
WithSu(st, data) ==
    IF Get(data, K_su).t \in {"null", "undefined"}
    THEN Put(data, K_su, Bool(st.buffering))
    ELSE data

\* The data object of apply_ when it reaches the delivery: the baseline
\* merged in, then pr, bs and su.
AssembleData(st, data, env) ==
    WithSu(st, WithStarved(st,
        Put(Assign(data, createData_(st, env).data), K_pr, env.playbackRate)))

\* Object.assign(request.headers, headers)
AssignHeaders(target, headers) ==
    [n \in DOMAIN target \cup DOMAIN headers |->
        IF n \in DOMAIN headers THEN headers[n] ELSE target[n]]

\* The header branch of apply_, h being toHeaders(data): {thrown, request}
DeliverHeaders(request, h) ==
    IF h.thrown THEN [thrown |-> TRUE, request |-> request]
    ELSE IF DOMAIN h.headers = {} THEN [thrown |-> FALSE, request |-> request]
    ELSE [thrown |-> FALSE,
          request |-> [request EXCEPT
              !.headers = AssignHeaders(request.headers, h.headers)]]

\* The query branch of apply_, q being toQuery(data): {thrown, request}
DeliverQuery(request, q) ==
    IF q.thrown THEN [thrown |-> TRUE, request |-> request]
    ELSE IF q.s = <<>> THEN [thrown |-> FALSE, request |-> request]
    ELSE [thrown |-> FALSE,
          request |-> [request EXCEPT
              !.uris = [i \in 1..Len(request.uris) |->
                           AppendQueryToUri(request.uris[i], q.s)]]]

\* The delivery of apply_: {thrown, request}
Deliver(request, data, useHeaders) ==
    IF useHeaders THEN DeliverHeaders(request, ToHeaders(data))
    ELSE DeliverQuery(request, ToQuery(data))

\* What apply_ leaves, full being the assembled data and d its delivery.
Applied(st, full, d) ==
    [enabled |-> TRUE, thrown |-> d.thrown,
     starved |-> StarvedAfter(st.starved, IsVideo(full)),
     request |-> d.request, data |-> full]

\* apply_ from the assembled data on.
ApplyAssembled(st, request, full) ==
    Applied(st, full, Deliver(request, full, st.config.useHeaders))

\* apply_ without its test of config.enabled.
apply_Unchecked(st, request, data, env) ==
    IF createData_(st, env).thrown \/ "getPlaybackRate" \in env.throws
    THEN [enabled |-> TRUE, thrown |-> TRUE, starved |-> st.starved,
          request |-> request, data |-> <<>>]
    ELSE ApplyAssembled(st, request, AssembleData(st, data, env))

\* apply_(request, data): {enabled, thrown, starved, request, data}; data is
\* the data object handed to the delivery, <<>> when apply_ never got there.
apply_(st, request, data, env) ==
    IF ~st.config.enabled
    THEN [enabled |-> FALSE, thrown |-> FALSE, starved |-> st.starved,
          request |-> request, data |-> <<>>]
    ELSE IF createData_(st, env).thrown \/ "getPlaybackRate" \in env.throws
    THEN [enabled |-> TRUE, thrown |-> TRUE, starved |-> st.starved,
          request |-> request, data |-> <<>>]
    ELSE ApplyAssembled(st, request, AssembleData(st, data, env))

\* An object type that takes no account of segmentInfo.init.
getObjectType_NoInit(segmentInfo) ==
    IF segmentInfo.type = "video"
    THEN IF Includes(segmentInfo.codecs, <<",">>) THEN ObjectType.MUXED
         ELSE ObjectType.VIDEO
    ELSE IF segmentInfo.type = "audio" THEN ObjectType.AUDIO
    ELSE IF segmentInfo.type = "text"
         THEN IF segmentInfo.mimeType = "application/mp4"
              THEN ObjectType.TIMED_TEXT
              ELSE ObjectType.CAPTION
    ELSE Undefined

\* getObjectType_(segmentInfo)
getObjectType_(segmentInfo) ==
    IF segmentInfo.init THEN ObjectType.INIT
    ELSE IF segmentInfo.type = "video"
         THEN IF Includes(segmentInfo.codecs, <<",">>) THEN ObjectType.MUXED
              ELSE ObjectType.VIDEO
    ELSE IF segmentInfo.type = "audio" THEN ObjectType.AUDIO
    ELSE IF segmentInfo.type = "text"
         THEN IF segmentInfo.mimeType = "application/mp4"
              THEN ObjectType.TIMED_TEXT
              ELSE ObjectType.CAPTION
    ELSE Undefined

\* getObjectTypeFromMimeType_(mimeType)
getObjectTypeFromMimeType_(mimeType) ==
    CASE mimeType \in {"video/webm", "video/mp4"} -> ObjectType.MUXED
      [] mimeType = "application/x-mpegurl" -> ObjectType.MANIFEST
      [] OTHER -> Undefined

\* getBufferLength_(type): {thrown, v}
getBufferLength_(type, env) ==
    IF "getBufferedInfo" \in env.throws \/ type \notin DOMAIN env.buffered
    THEN [thrown |-> TRUE, v |-> NaN]
    ELSE LET ranges == env.buffered[type]
             start == env.currentTime
             found == {i \in 1..Len(ranges) :
                          ranges[i].start <= start /\ ranges[i].end >= start}
         IN  IF ranges = <<>> THEN [thrown |-> FALSE, v |-> NaN]
             ELSE IF "getCurrentTime" \in env.throws
                  THEN [thrown |-> TRUE, v |-> NaN]
             ELSE IF found = {} THEN [thrown |-> FALSE, v |-> NaN]
             ELSE LET range == ranges[CHOOSE i \in found :
                                          \A j \in found : i <= j]
                  IN  [thrown |-> FALSE,
                       v |-> TimesThousand(Num(range.end - start))]

\* getStreamType_(): {thrown, v}
getStreamType_(env) ==
    [thrown |-> "isLive" \in env.throws,
     v |-> IF env.live THEN StreamType.LIVE ELSE StreamType.VOD]

\* variant[type] || variant, then .bandwidth: a variant or stream is a record
\* of its bandwidth and of the bandwidths of its video and audio streams
\* (Null for a missing stream).
StreamBandwidth(variant, type) ==
    IF type \in {"video", "audio"} /\ variant[type] # Null
    THEN variant[type]
    ELSE variant.bandwidth

\* The loop of getTopBandwidth_: top.bandwidth after the variants left.
RECURSIVE TopLoop(_, _, _)
TopLoop(variants, type, top) ==
    IF variants = <<>> THEN top
    ELSE LET b == StreamBandwidth(Head(variants), type)
         IN  TopLoop(Tail(variants), type, IF Greater(b, top) THEN b ELSE top)

\* getTopBandwidth_(type): {thrown, v}
getTopBandwidth_(type, env) ==
    IF "getManifest" \in env.throws THEN [thrown |-> TRUE, v |-> NaN]
    ELSE IF ~env.manifest.present THEN [thrown |-> FALSE, v |-> NaN]
    ELSE LET variants == IF type = "text" THEN env.manifest.textStreams
                         ELSE env.manifest.variants
         IN  IF variants = <<>> THEN [thrown |-> TRUE, v |-> NaN]
             ELSE [thrown |-> FALSE,
                   v |-> TopLoop(variants, type,
                                 StreamBandwidth(variants[1], type))]

\* if (segmentInfo.bandwidth)
Truthy(v) == isValid(v) /\ v # Whole(0)

\* isMedia of applySegmentData
IsMedia(ot) ==
    ot \in {ObjectType.VIDEO, ObjectType.AUDIO, ObjectType.MUXED,
            ObjectType.TIMED_TEXT}

\* if (isMedia) { data.bl = ... }
WithBl(data, isMedia, bl) == IF isMedia THEN Put(data, K_bl, bl) ELSE data

\* if (segmentInfo.bandwidth) { data.br = ... }
WithBr(data, bandwidth) ==
    IF Truthy(bandwidth) THEN Put(data, K_br, DivThousand(bandwidth)) ELSE data

\* Whether applySegmentData throws before it calls apply_.
SegmentThrows(segmentInfo, env) ==
    \/ getStreamType_(env).thrown
    \/ /\ IsMedia(getObjectType_(segmentInfo))
       /\ getBufferLength_(segmentInfo.type, env).thrown
    \/ getTopBandwidth_(segmentInfo.type, env).thrown

\* The data object applySegmentData hands to apply_.
SegmentData(segmentInfo, env) ==
    Put(WithBr(WithBl(<< Entry(K_d, TimesThousand(segmentInfo.duration)),
                         Entry(K_st, getStreamType_(env).v),
                         Entry(K_ot, getObjectType_(segmentInfo)) >>,
                      IsMedia(getObjectType_(segmentInfo)),
                      getBufferLength_(segmentInfo.type, env).v),
                segmentInfo.bandwidth),
        K_tb, DivThousand(getTopBandwidth_(segmentInfo.type, env).v))

\* What an apply method leaves when it returns before apply_ or catches an
\* error thrown before apply_.
Untouched(st, request, enabled, thrown) ==
    [enabled |-> enabled, thrown |-> thrown, starved |-> st.starved,
     request |-> request, data |-> <<>>]

\* applyManifestData leaving su to the default of apply_.
applyManifestDataSuDefault(st, request, manifestInfo, env) ==
    IF ~st.config.enabled
    THEN [sf |-> st.sf, r |-> Untouched(st, request, FALSE, FALSE)]
    ELSE [sf |-> manifestInfo.format,
          r |-> apply_([st EXCEPT !.sf = manifestInfo.format], request,
                       << Entry(K_ot, ObjectType.MANIFEST) >>, env)]

\* applyManifestData(request, manifestInfo): the result of apply_, and sf.
applyManifestData(st, request, manifestInfo, env) ==
    IF ~st.config.enabled
    THEN [sf |-> st.sf, r |-> Untouched(st, request, FALSE, FALSE)]
    ELSE [sf |-> manifestInfo.format,
          r |-> apply_([st EXCEPT !.sf = manifestInfo.format], request,
                       << Entry(K_ot, ObjectType.MANIFEST),
                          Entry(K_su, Bool(~st.playbackStarted)) >>, env)]

\* applySegmentData(request, segmentInfo)
applySegmentData(st, request, segmentInfo, env) ==
    IF ~st.config.enabled THEN Untouched(st, request, FALSE, FALSE)
    ELSE IF SegmentThrows(segmentInfo, env)
    THEN Untouched(st, request, TRUE, TRUE)
    ELSE apply_(st, request, SegmentData(segmentInfo, env), env)

\* applyTextData(request)
applyTextData(st, request, env) ==
    apply_(st, request,
           << Entry(K_ot, ObjectType.CAPTION), Entry(K_su, Bool(TRUE)) >>, env)

\* What an append method returns, data being its data object and q the
\* query made of it: {enabled, thrown, uri, data}
Appended(uri, data, q) ==
    IF q.thrown
    THEN [enabled |-> TRUE, thrown |-> TRUE, uri |-> uri, data |-> data]
    ELSE [enabled |-> TRUE, thrown |-> FALSE,
          uri |-> AppendQueryToUri(uri, q.s), data |-> data]

\* An append method from its data object on.
AppendQuery(uri, data) == Appended(uri, data, ToQuery(data))

\* The body shared by appendSrcData and appendTextTrackData, ot given.
AppendData(st, uri, ot, env) ==
    IF ~st.config.enabled
    THEN [enabled |-> FALSE, thrown |-> FALSE, uri |-> uri, data |-> <<>>]
    ELSE IF createData_(st, env).thrown
    THEN [enabled |-> TRUE, thrown |-> TRUE, uri |-> uri, data |-> <<>>]
    ELSE AppendQuery(uri, Put(Put(createData_(st, env).data, K_ot, ot),
                              K_su, Bool(TRUE)))

\* appendSrcData(uri, mimeType)
appendSrcData(st, uri, mimeType, env) ==
    AppendData(st, uri, getObjectTypeFromMimeType_(mimeType), env)

\* appendTextTrackData(uri)
appendTextTrackData(st, uri, env) ==
    AppendData(st, uri, ObjectType.CAPTION, env)

(***************************************************************************)
(* The inputs the operations are called with.                              *)
(***************************************************************************)
\* "http://a/b"
UriPlain == <<"h", "t", "t", "p", ":", "/", "/", "a", "/", "b">>
\* "http://a/b?x=1"
UriWithQuery == UriPlain \o <<"?", "x", "=", "1">>
\* "offline:m/1"
UriOffline == OfflineMark \o <<"m", "/", "1">>
\* "http://a/offline:b"
UriOfflineInPath ==
    <<"h", "t", "t", "p", ":", "/", "/", "a", "/">> \o OfflineMark \o <<"b">>

Uris == {UriPlain, UriWithQuery, UriOffline, UriOfflineInPath}

Requests ==
    { [headers |-> EmptyHeaders, uris |-> <<UriPlain>>],
      [headers |-> ("X-Token" :> <<"1">>), uris |-> <<UriWithQuery, UriOffline>>] }

\* The segment requests: one with a header of its own and three uris.
SegmentRequests ==
    { [headers |-> ("X-Token" :> <<"1">>),
       uris |-> <<UriPlain, UriWithQuery, UriOffline>>] }

ManifestInfos ==
    { [format |-> StreamingFormat.DASH], [format |-> StreamingFormat.HLS] }

\* Every type, init flag, mime type and codecs list, lasting 3.5 s, of
\* unknown bandwidth or at 640500 bit/s.
SegmentInfos ==
    [type : {"video", "audio", "text", "image"},
     init : BOOLEAN,
     duration : {Num(3500)},
     mimeType : {"application/mp4", "text/vtt"},
     codecs : {<<"a", "v", "c", "1">>,
               <<"a", "v", "c", "1", ",", "m", "p", "4", "a">>},
     bandwidth : {Undefined, Whole(640500)}]

MimeTypes == {"video/mp4", "video/webm", "application/x-mpegurl", "audio/mp4"}

ManifestOfTwo ==
    [present |-> TRUE,
     variants |-> << [bandwidth |-> Whole(1128000), video |-> Whole(1000000),
                      audio |-> Whole(128000)],
                     [bandwidth |-> Whole(2000000), video |-> Whole(2000000),
                      audio |-> Null] >>,
     textStreams |-> << [bandwidth |-> Undefined, video |-> Null,
                         audio |-> Null] >>]

ManifestEmpty == [present |-> TRUE, variants |-> <<>>, textStreams |-> <<>>]

ManifestNone == [present |-> FALSE, variants |-> <<>>, textStreams |-> <<>>]

\* The player at rest: VOD at rate 1, playing second 3 of a buffered 0..5.
EnvSteady ==
    [throws |-> {}, bandwidthEstimate |-> Whole(1250000),
     playbackRate |-> Whole(1), live |-> FALSE, manifest |-> ManifestOfTwo,
     buffered |-> [video |-> << [start |-> 0, end |-> 5000] >>,
                   audio |-> << [start |-> 0, end |-> 4449] >>,
                   text |-> <<>>],
     currentTime |-> 3000]

\* A live stream at rate 2 with no manifest yet, playing outside the buffer.
EnvLive ==
    [EnvSteady EXCEPT !.playbackRate = Whole(2), !.live = TRUE,
                      !.manifest = ManifestNone, !.currentTime = 6000]

\* The bandwidth estimator throws.
EnvThrows == [EnvSteady EXCEPT !.throws = {"getBandwidthEstimate"}]

\* The manifest has no variant and no text stream.
EnvEmpty == [EnvSteady EXCEPT !.manifest = ManifestEmpty]

Envs == {EnvSteady, EnvLive, EnvThrows, EnvEmpty}

\* The answers that differ for a call that reads only the bandwidth estimate
\* and the playback rate.
BaselineEnvs == {EnvSteady, EnvLive, EnvThrows}

\* What window.crypto.randomUUID() may return.
UUIDs == { <<"u", "u", "i", "d">> }

\* Disabled, in header mode, in query mode, and in query mode with the
\* malformed content id.
Configs ==
    { [enabled |-> FALSE, useHeaders |-> h, contentId |-> Str(<<"c", "1">>),
       sessionId |-> <<>>] : h \in BOOLEAN }
    \cup
    { [enabled |-> TRUE, useHeaders |-> TRUE, contentId |-> Str(<<"c", "1">>),
       sessionId |-> <<"s", "1">>],
      [enabled |-> TRUE, useHeaders |-> FALSE, contentId |-> Str(<<"c", "1">>),
       sessionId |-> <<>>],
      [enabled |-> TRUE, useHeaders |-> FALSE,
       contentId |-> Str(<<"c", LoneSurrogate>>), sessionId |-> <<>>] }

(***************************************************************************)
(* The observers.  mon follows the calls as the starvation scenario names  *)
(* them: "init" until the first setBuffering(false), "started" after it,   *)
(* "pending" once setBuffering(true) follows, "reported" once an           *)
(* applySegmentData for a VIDEO or MUXED object has then produced its      *)
(* payload, and until the next setBuffering.                               *)
(***************************************************************************)
MonAfterSetBuffering(m, buffering) ==
    IF buffering THEN (IF m = "init" THEN "init" ELSE "pending")
    ELSE (IF m = "pending" THEN "pending" ELSE "started")

Produced(r) == r.enabled /\ ~r.thrown

MonAfterSegment(m, r) ==
    IF m = "pending" /\ Produced(r) /\ IsVideo(r.data) THEN "reported" ELSE m

Pre == [playbackStarted |-> playbackStarted_, buffering |-> buffering_,
        starved |-> starved_, sf |-> sf_, mon |-> mon]

(***************************************************************************)
(* The state machine.  The player is single-threaded and its calls are     *)
(* synchronous: the caller makes one call, takes what it produced (Return) *)
(* and only then makes the next.                                           *)
(***************************************************************************)
Idle == [op |-> "idle"]

\* The state the constructor leaves.
Construct(config, uuid) ==
    /\ config_ = config
    /\ sid_ = IF config.sessionId # <<>> THEN config.sessionId ELSE uuid
    /\ sf_ = Undefined
    /\ playbackStarted_ = FALSE
    /\ buffering_ = TRUE
    /\ starved_ = FALSE
    /\ call = Idle
    /\ mon = "init"
    /\ lastFormat = Undefined

Init == \E config \in Configs, uuid \in UUIDs : Construct(config, uuid)

\* The state a setBuffering call leaves, r being SetBufferingResult.
SetBufferingReturns(buffering, r) ==
    /\ playbackStarted_' = r.playbackStarted
    /\ starved_' = r.starved
    /\ buffering_' = r.buffering
    /\ call' = [op |-> "setBuffering", pre |-> Pre, buffering |-> buffering]
    /\ mon' = MonAfterSetBuffering(mon, buffering)
    /\ UNCHANGED <<sf_, sid_, config_, lastFormat>>

SetBuffering(buffering) ==
    /\ call = Idle
    /\ SetBufferingReturns(buffering, SetBufferingResult(State, buffering))

ManifestReturns(request, manifestInfo, m) ==
    /\ sf_' = m.sf
    /\ starved_' = m.r.starved
    /\ call' = [op |-> "applyManifestData", pre |-> Pre, request |-> request,
                manifestInfo |-> manifestInfo, r |-> m.r]
    /\ lastFormat' = manifestInfo.format
    /\ UNCHANGED <<playbackStarted_, buffering_, sid_, config_, mon>>

ApplyManifestData(request, manifestInfo, env) ==
    /\ call = Idle
    /\ ManifestReturns(request, manifestInfo,
                       applyManifestData(State, request, manifestInfo, env))

SegmentReturns(request, segmentInfo, r) ==
    /\ starved_' = r.starved
    /\ call' = [op |-> "applySegmentData", pre |-> Pre, request |-> request,
                segmentInfo |-> segmentInfo, r |-> r]
    /\ mon' = MonAfterSegment(mon, r)
    /\ UNCHANGED <<playbackStarted_, buffering_, sf_, sid_, config_,
                   lastFormat>>

ApplySegmentData(request, segmentInfo, env) ==
    /\ call = Idle
    /\ SegmentReturns(request, segmentInfo,
                      applySegmentData(State, request, segmentInfo, env))

TextReturns(request, r) ==
    /\ starved_' = r.starved
    /\ call' = [op |-> "applyTextData", pre |-> Pre, request |-> request,
                r |-> r]
    /\ UNCHANGED <<playbackStarted_, buffering_, sf_, sid_, config_, mon,
                   lastFormat>>

ApplyTextData(request, env) ==
    /\ call = Idle
    /\ TextReturns(request, applyTextData(State, request, env))

AppendSrcData(uri, mimeType, env) ==
    /\ call = Idle
    /\ call' = [op |-> "appendSrcData", pre |-> Pre, uri |-> uri,
                mimeType |-> mimeType,
                r |-> appendSrcData(State, uri, mimeType, env)]
    /\ UNCHANGED <<session, mon, lastFormat>>

AppendTextTrackData(uri, env) ==
    /\ call = Idle
    /\ call' = [op |-> "appendTextTrackData", pre |-> Pre, uri |-> uri,
                r |-> appendTextTrackData(State, uri, env)]
    /\ UNCHANGED <<session, mon, lastFormat>>

\* The caller has taken the result of the call.
Return ==
    /\ call # Idle
    /\ call' = Idle
    /\ UNCHANGED <<session, mon, lastFormat>>

Next ==
    \/ Return
    \/ \E buffering \in BOOLEAN : SetBuffering(buffering)
    \/ \E request \in Requests, manifestInfo \in ManifestInfos,
          env \in BaselineEnvs :
           ApplyManifestData(request, manifestInfo, env)
    \/ \E request \in SegmentRequests, segmentInfo \in SegmentInfos,
          env \in Envs :
           ApplySegmentData(request, segmentInfo, env)
    \/ \E request \in Requests, env \in BaselineEnvs :
           ApplyTextData(request, env)
    \/ \E uri \in Uris, mimeType \in MimeTypes, env \in BaselineEnvs :
           AppendSrcData(uri, mimeType, env)
    \/ \E uri \in Uris, env \in BaselineEnvs : AppendTextTrackData(uri, env)

Spec == Init /\ [][Next]_vars

(***************************************************************************)
(* The static functions on their own: serialize, toHeaders, toQuery and    *)
(* appendQueryToUri called with payloads of up to MaxKeys entries.         *)
(***************************************************************************)
\* An unmapped key.
K_zz == <<"z", "z">>

\* The entries a payload is made of: numbers to round, the values that are
\* not valid, the defaults of v and pr, strings with a quote and a slash.
PoolEntries ==
    { Entry(K_br, Num(640500)), Entry(K_br, NaN),
      Entry(K_ot, ObjectType.VIDEO),
      Entry(K_su, Bool(TRUE)), Entry(K_su, Bool(FALSE)),
      Entry(K_bs, Bool(TRUE)),
      Entry(K_sid, Str(<<"a", "\"", "b">>)), Entry(K_sid, Str(<<>>)),
      Entry(K_cid, Null),
      Entry(K_v, Whole(1)), Entry(K_v, Whole(2)),
      Entry(K_pr, Whole(1)), Entry(K_pr, Num(1500)),
      Entry(K_nor, Str(<<"a", "/", "b">>)), Entry(K_nor, Str(<<LoneSurrogate>>)),
      Entry(K_zz, Str(<<"q", ",", "r">>)), Entry(K_zz, Undefined) }

\* The data objects of n entries, in every insertion order.
PayloadsOfLen(n) ==
    {p \in [1..n -> PoolEntries] : \A i, j \in 1..n : i # j => p[i].k # p[j].k}

Payloads == UNION {PayloadsOfLen(n) : n \in 0..MaxKeys}

\* "CMCD=ot%3Dm"
QuerySample ==
    <<"C", "M", "C", "D", "=", "o", "t", "%", "3", "D", "m">>

Queries == {<<>>, QuerySample}

InitStatic ==
    Construct(CHOOSE c \in Configs : c.enabled /\ c.useHeaders,
              CHOOSE u \in UUIDs : TRUE)

CallSerialize(data) ==
    /\ call = Idle
    /\ call' = [op |-> "serialize", data |-> data, r |-> Serialize(data)]
    /\ UNCHANGED <<session, mon, lastFormat>>

CallToHeaders(data) ==
    /\ call = Idle
    /\ call' = [op |-> "toHeaders", data |-> data, r |-> ToHeaders(data)]
    /\ UNCHANGED <<session, mon, lastFormat>>

CallToQuery(data) ==
    /\ call = Idle
    /\ call' = [op |-> "toQuery", data |-> data, r |-> ToQuery(data)]
    /\ UNCHANGED <<session, mon, lastFormat>>

CallAppendQueryToUri(uri, query) ==
    /\ call = Idle
    /\ call' = [op |-> "appendQueryToUri", uri |-> uri, query |-> query,
                r |-> AppendQueryToUri(uri, query)]
    /\ UNCHANGED <<session, mon, lastFormat>>

NextStatic ==
    \/ Return
    \/ \E data \in Payloads : CallSerialize(data)
    \/ \E data \in Payloads : CallToHeaders(data)
    \/ \E data \in Payloads : CallToQuery(data)
    \/ \E uri \in Uris, query \in Queries : CallAppendQueryToUri(uri, query)

SpecStatic == InitStatic /\ [][NextStatic]_vars

(***************************************************************************)
(* Properties.                                                             *)
(***************************************************************************)
\* The part of a token before its first "=": its key.
TokenKey(token) ==
    IF \E i \in 1..Len(token) : token[i] = "="
    THEN SubSeq(token, 1,
                (CHOOSE i \in 1..Len(token) :
                    token[i] = "=" /\ \A j \in 1..(i - 1) : token[j] # "=") - 1)
    ELSE token

\* The part of a token after its key and "=".
TokenValue(token) == SubSeq(token, Len(TokenKey(token)) + 2, Len(token))

\* A value that is to be reported under a key.
Meaningful(key, value) ==
    /\ value.t \notin {"NaN", "null", "undefined"}
    /\ value # Str(<<>>)
    /\ value # Bool(FALSE)
    /\ ~(key = K_v /\ value = Whole(1))
    /\ ~(key = K_pr /\ value = Whole(1))

\* C5: serialize emits a token for a key if and only if the key's value is
\* meaningful and is not the default of v or pr; every token is a bare key
\* or a key with a value that is neither empty nor null; the keys of the
\* tokens ascend in lexicographic order; the output is the tokens joined by
\* commas.
C5_SerializeKeys ==
    (call.op = "serialize" /\ ~call.r.thrown) =>
        LET res == call.r.results
            keys == [j \in 1..Len(res) |-> TokenKey(res[j])]
        IN  /\ \A i \in 1..Len(call.data) :
                   (\E j \in 1..Len(res) : keys[j] = call.data[i].k)
                       <=> Meaningful(call.data[i].k, call.data[i].v)
            /\ \A j \in 1..Len(res) : HasKey(call.data, keys[j])
            /\ \A j \in 1..Len(res) :
                   \/ res[j] = keys[j]
                   \/ TokenValue(res[j]) \notin
                          {<<>>, <<"\"", "\"">>, <<"n", "u", "l", "l">>,
                           <<"N", "a", "N">>,
                           <<"u", "n", "d", "e", "f", "i", "n", "e", "d">>}
            /\ \A j, k \in 1..Len(res) : j < k => StrLess(keys[j], keys[k])
            /\ call.r.s = Join(res, <<",">>)

\* A serialize call that dropped a default and a value that is not valid and
\* put two keys, inserted in descending order, in ascending order.
C5_Witness ==
    /\ call.op = "serialize"
    /\ ~call.r.thrown
    /\ Len(call.data) = MaxKeys
    /\ Len(call.r.results) = 2
    /\ StrLess(call.data[2].k, call.data[1].k)
    /\ \E i \in 1..Len(call.data) : call.data[i] = Entry(K_v, Whole(1))

\* The value a quoted token holds between its quotes.
Quoted(key, token) == SubSeq(token, Len(key) + 3, Len(token) - 1)

\* C6: a string value of a key other than ot, sf, st is emitted between
\* double quotes with every double quote of its own escaped: what is emitted
\* differs from a raw value that holds a double quote, and each double quote
\* in it follows a backslash.
C6_QuotesEscaped ==
    (call.op = "serialize" /\ ~call.r.thrown) =>
        \A i \in 1..Len(call.data) :
            LET e == call.data[i]
            IN  (/\ e.v.t = "string"
                 /\ e.k \notin {K_ot, K_sf, K_st, K_nor}
                 /\ Includes(e.v.s, <<"\"">>)) =>
                    \E j \in 1..Len(call.r.results) :
                        LET token == call.r.results[j]
                            inner == Quoted(e.k, token)
                        IN  /\ TokenKey(token) = e.k
                            /\ inner # e.v.s
                            /\ \A q \in 1..Len(inner) :
                                   inner[q] = "\"" =>
                                       (q > 1 /\ inner[q - 1] = "\\")

\* The scheme of a uri: what comes before its first colon.
Scheme(uri) ==
    IF \E i \in 1..Len(uri) : uri[i] = ":"
    THEN SubSeq(uri, 1,
                (CHOOSE i \in 1..Len(uri) :
                    uri[i] = ":" /\ \A j \in 1..(i - 1) : uri[j] # ":") - 1)
    ELSE <<>>

OfflineScheme == <<"o", "f", "f", "l", "i", "n", "e">>

\* C7: appendQueryToUri returns the uri unchanged exactly when the query is
\* empty or the scheme of the uri is the offline scheme; otherwise it
\* appends the query after "&" when the uri holds a "?", after "?" when not.
C7_AppendQueryToUri ==
    call.op = "appendQueryToUri" =>
        call.r = IF call.query = <<>> \/ Scheme(call.uri) = OfflineScheme
                 THEN call.uri
                 ELSE call.uri
                      \o (IF Includes(call.uri, <<"?">>) THEN <<"&">>
                          ELSE <<"?">>)
                      \o call.query

\* The header a key is to be sent under.
GroupOfKey(key) ==
    CASE key \in {K_br, K_d, K_ot, K_tb} -> "Object"
      [] key \in {K_cid, K_pr, K_sf, K_sid, K_st, K_v} -> "Session"
      [] key \in {K_bs, K_rtp} -> "Status"
      [] OTHER -> "Request"

GroupNames == {"Object", "Request", "Session", "Status"}

\* The entries of a payload that are to be sent under a header.
EntriesOfGroup(data, g) == SelectSeq(data, LAMBDA e : GroupOfKey(e.k) = g)

TokensOf(results) == {results[j] : j \in 1..Len(results)}

\* C8: toHeaders sends each key under the one header of its group, the
\* unmapped keys under CMCD-Request; a header is present if and only if the
\* serialization of its group is not empty, and is that serialization; the
\* tokens of the headers together are those of serialize on the whole payload.
C8_ToHeaders ==
    (call.op = "toHeaders" /\ ~call.r.thrown) =>
        /\ DOMAIN call.r.headers \subseteq {"CMCD-" \o g : g \in GroupNames}
        /\ \A g \in GroupNames :
               LET group == Serialize(EntriesOfGroup(call.data, g))
               IN  /\ ("CMCD-" \o g) \in DOMAIN call.r.headers
                       <=> group.s # <<>>
                   /\ ("CMCD-" \o g) \in DOMAIN call.r.headers
                       => call.r.headers["CMCD-" \o g] = group.s
        /\ UNION {TokensOf(Serialize(EntriesOfGroup(call.data, g)).results) :
                     g \in GroupNames}
               = TokensOf(Serialize(call.data).results)

\* A toHeaders call on a payload with an unmapped key that made three headers.
C8_Witness ==
    /\ call.op = "toHeaders"
    /\ ~call.r.thrown
    /\ HasKey(call.data, K_zz)
    /\ Get(call.data, K_zz) # Undefined
    /\ Cardinality(DOMAIN call.r.headers) = MaxKeys

\* The entry points that take a request, and those that take a uri.
ApplyOps == {"applyManifestData", "applySegmentData", "applyTextData"}

AppendOps == {"appendSrcData", "appendTextTrackData"}

\* C1: once playback has started and setBuffering(true) has been called, the
\* next applySegmentData call that delivers a payload of object type VIDEO or
\* MUXED has bs and su set in it and leaves starved cleared; a VIDEO or MUXED
\* call that follows it with no setBuffering in between carries no bs.
C1_StarvationReportedOnce ==
    (call.op = "applySegmentData" /\ Produced(call.r)
       /\ Get(call.r.data, K_ot) \in {ObjectType.VIDEO, ObjectType.MUXED}) =>
        /\ call.pre.mon = "pending" =>
               /\ Get(call.r.data, K_bs) = Bool(TRUE)
               /\ Get(call.r.data, K_su) = Bool(TRUE)
               /\ ~starved_
        /\ call.pre.mon = "reported" => ~HasKey(call.r.data, K_bs)

\* The second video call of a rebuffer that is still going on: no bs.
C1_Witness ==
    /\ call.op = "applySegmentData"
    /\ Produced(call.r)
    /\ Get(call.r.data, K_ot) = ObjectType.MUXED
    /\ call.pre.mon = "reported"
    /\ call.pre.buffering
    /\ ~HasKey(call.r.data, K_bs)

\* C2: setBuffering(b) called when buffering already equals b leaves starved
\* unchanged, and starved goes from false to true only on setBuffering(true)
\* called while buffering was false and playbackStarted was true.
C2_SetBufferingIdempotent ==
    call.op = "setBuffering" =>
        /\ call.buffering = call.pre.buffering => starved_ = call.pre.starved
        /\ (~call.pre.starved /\ starved_) =>
               (call.buffering /\ ~call.pre.buffering
                  /\ call.pre.playbackStarted)

\* C3: with enabled = false the apply entry points leave the request as it
\* was, the append entry points return the uri they were given, and none of
\* them changes the streaming format or starved.
C3_DisabledNoOp ==
    ~config_.enabled =>
        /\ call.op \in ApplyOps => call.r.request = call.request
        /\ call.op \in AppendOps => call.r.uri = call.uri
        /\ call.op \in ApplyOps \cup AppendOps =>
               (sf_ = call.pre.sf /\ starved_ = call.pre.starved)

\* applyTextData on a disabled manager while a starvation is pending.
C3_Witness ==
    /\ ~config_.enabled
    /\ call.op = "applyTextData"
    /\ call.pre.starved
    /\ starved_
    /\ call.r.request = call.request

\* C4: an apply entry point in which a step fails returns with the request,
\* the streaming format and starved as they were before the call.
C4_FailureNoOp ==
    (call.op \in ApplyOps /\ call.r.thrown) =>
        /\ call.r.request = call.request
        /\ sf_ = call.pre.sf
        /\ starved_ = call.pre.starved

\* The object type of a segment context.
ResolvedType(segmentInfo) ==
    CASE segmentInfo.init -> ObjectType.INIT
      [] ~segmentInfo.init /\ segmentInfo.type = "video" ->
             IF \E i \in 1..Len(segmentInfo.codecs) : segmentInfo.codecs[i] = ","
             THEN ObjectType.MUXED ELSE ObjectType.VIDEO
      [] ~segmentInfo.init /\ segmentInfo.type = "audio" -> ObjectType.AUDIO
      [] ~segmentInfo.init /\ segmentInfo.type = "text" ->
             IF segmentInfo.mimeType = "application/mp4"
             THEN ObjectType.TIMED_TEXT ELSE ObjectType.CAPTION
      [] OTHER -> Undefined

\* C9: the payload of applySegmentData has ot INIT for an init segment, else
\* MUXED or VIDEO for video by the comma in codecs, AUDIO for audio,
\* TIMED_TEXT or CAPTION for text by the mimeType, and no ot for another
\* type; it has bl if and only if ot is VIDEO, AUDIO, MUXED or TIMED_TEXT.
C9_ObjectType ==
    (call.op = "applySegmentData" /\ Produced(call.r)) =>
        /\ Get(call.r.data, K_ot) = ResolvedType(call.segmentInfo)
        /\ ResolvedType(call.segmentInfo) = Undefined =>
               \A e \in TokensOf(Serialize(call.r.data).results) :
                   TokenKey(e) # K_ot
        /\ HasKey(call.r.data, K_bl) <=>
               ResolvedType(call.segmentInfo) \in
                   {ObjectType.VIDEO, ObjectType.AUDIO, ObjectType.MUXED,
                    ObjectType.TIMED_TEXT}

\* The init segment of a video stream: INIT, and no bl.
C9_Witness ==
    /\ call.op = "applySegmentData"
    /\ Produced(call.r)
    /\ call.segmentInfo.init
    /\ call.segmentInfo.type = "video"
    /\ Get(call.r.data, K_ot) = ObjectType.INIT
    /\ ~HasKey(call.r.data, K_bl)

\* C10: the payload of applyManifestData has ot MANIFEST and has su set if
\* and only if setBuffering(false) was never called, whatever buffering and
\* starved are; the payload of every entry point has the sf of the latest
\* applyManifestData call.
C10_ManifestPayload ==
    /\ (call.op = "applyManifestData" /\ Produced(call.r)) =>
           /\ Get(call.r.data, K_ot) = ObjectType.MANIFEST
           /\ Get(call.r.data, K_su) = Bool(call.pre.mon = "init")
    /\ (call.op \in ApplyOps \cup AppendOps /\ Produced(call.r)) =>
           Get(call.r.data, K_sf) = lastFormat

\* A manifest request of another format, made during a rebuffer with the
\* starvation still to report: no su, the new sf.
C10_Witness ==
    /\ call.op = "applyManifestData"
    /\ Produced(call.r)
    /\ call.pre.mon = "pending"
    /\ call.pre.buffering
    /\ call.pre.starved
    /\ call.pre.sf # Undefined
    /\ call.pre.sf # call.manifestInfo.format
    /\ Get(call.r.data, K_su) = Bool(FALSE)
    /\ Get(call.r.data, K_sf) = call.manifestInfo.format

\* C11: the payload an applySegmentData call delivers has su set if and only
\* if buffering was true when the call was made, or the object type is VIDEO
\* or MUXED and starved was true when the call was made.
C11_SegmentSu ==
    (call.op = "applySegmentData" /\ Produced(call.r)) =>
        (Get(call.r.data, K_su) = Bool(TRUE)
           <=> \/ call.pre.buffering
               \/ /\ Get(call.r.data, K_ot) \in
                         {ObjectType.VIDEO, ObjectType.MUXED}
                  /\ call.pre.starved)

\* A video segment requested after the rebuffer has ended, its starvation
\* still to report: su, though buffering is false.
C11_Witness ==
    /\ call.op = "applySegmentData"
    /\ Produced(call.r)
    /\ Get(call.r.data, K_ot) = ObjectType.VIDEO
    /\ ~call.pre.buffering
    /\ call.pre.starved
    /\ Get(call.r.data, K_su) = Bool(TRUE)

\* Whether the call is one that is not to consume the starvation: any entry
\* point but applySegmentData for a VIDEO or MUXED object.
NotVideoRequest ==
    \/ call.op \in {"applyManifestData", "applyTextData"} \cup AppendOps
    \/ /\ call.op = "applySegmentData"
       /\ ResolvedType(call.segmentInfo) \notin
              {ObjectType.VIDEO, ObjectType.MUXED}

\* C12: applyManifestData, applyTextData, applySegmentData for an object
\* type other than VIDEO and MUXED, appendSrcData and appendTextTrackData
\* put no bs in their payload and leave starved, playbackStarted and
\* buffering as they were, so that a starvation stays to be reported.
C12_OnlyVideoConsumesStarved ==
    /\ NotVideoRequest =>
           /\ ~HasKey(call.r.data, K_bs)
           /\ starved_ = call.pre.starved
           /\ playbackStarted_ = call.pre.playbackStarted
           /\ buffering_ = call.pre.buffering
    /\ (call.op = "applySegmentData" /\ Produced(call.r) /\ call.pre.starved
          /\ Get(call.r.data, K_ot) \in {ObjectType.VIDEO, ObjectType.MUXED})
           => Get(call.r.data, K_bs) = Bool(TRUE)

\* appendSrcData for video/mp4, a MUXED object, while a starvation is to be
\* reported: a payload with no bs, and starved as it was.
C12_Witness ==
    /\ call.op = "appendSrcData"
    /\ Produced(call.r)
    /\ Get(call.r.data, K_ot) = ObjectType.MUXED
    /\ call.pre.starved
    /\ starved_
    /\ ~HasKey(call.r.data, K_bs)

\* The calls that record the state they were made in and a payload.
PayloadOps == ApplyOps \cup AppendOps

\* C13: in every state starved implies playbackStarted and playbackStarted
\* false implies buffering; no call made before the first setBuffering(false)
\* has bs in its payload; no call takes playbackStarted from true to false.
C13_StartedInvariant ==
    /\ starved_ => playbackStarted_
    /\ ~playbackStarted_ => buffering_
    /\ (call.op \in PayloadOps /\ call.pre.mon = "init") =>
           ~HasKey(call.r.data, K_bs)
    /\ (call.op \in PayloadOps \cup {"setBuffering"}
          /\ call.pre.playbackStarted) => playbackStarted_

\* A video segment delivered before playback has started: no bs, and
\* starved still false.
C13_Witness ==
    /\ call.op = "applySegmentData"
    /\ Produced(call.r)
    /\ Get(call.r.data, K_ot) = ObjectType.VIDEO
    /\ call.pre.mon = "init"
    /\ ~playbackStarted_
    /\ buffering_
    /\ ~starved_
    /\ ~HasKey(call.r.data, K_bs)

====
